---- MODULE Spec2Model ----
(***************************************************************************)
(* Model of src/librustdoc/html/twoslash.rs: the classifier                *)
(* (split_items_and_statements), the fn-main wrapper and the offset        *)
(* remapper of process_code_block, and the ANALYZER mutex around the       *)
(* analysis engine.                                                        *)
(*                                                                         *)
(* Text is a sequence of bytes.  An ASCII byte is written as a one         *)
(* character string; the two bytes of a two-byte UTF-8 character are       *)
(* written "C3" (lead byte) and "A9" (continuation byte).  Byte offsets    *)
(* are 0-based as in the source; sequences are 1-based, so the byte at     *)
(* offset i is s[i+1].                                                     *)
(***************************************************************************)
EXTENDS Integers, Sequences, FiniteSets

\* ------------------------------------------------------------------ bounds
\* Lines per generated snippet (classifier specification).
MaxLines == 3
\* Annotations per engine result (pipeline specification).
MaxAnn == 1
\* Largest annotation length the engine reports.
MaxAnnLen == 2
\* Concurrent callers of process_code_block (concurrency specification).
NThreads == 2

\* Annotations per engine result (ordering specification).
MaxOrdered == 2

\* ------------------------------------------------------- bytes and strings
LF == "\n"
CR == "\r"

\* UTF-8 continuation bytes of the alphabet (10xxxxxx).
ContinuationBytes == {"A9"}

\* char::is_whitespace, restricted to the alphabet.
WhiteSpace == {" ", "\t", CR, LF}

Min(a, b) == IF a <= b THEN a ELSE b

\* str::is_char_boundary(i), i a 0-based byte offset.
is_char_boundary(s, i) ==
    \/ i = 0
    \/ i = Len(s)
    \/ i < Len(s) /\ s[i + 1] \notin ContinuationBytes

RECURSIVE trim_start(_)
trim_start(s) ==
    IF s # <<>> /\ Head(s) \in WhiteSpace THEN trim_start(Tail(s)) ELSE s

RECURSIVE trim_end(_)
trim_end(s) ==
    IF s # <<>> /\ s[Len(s)] \in WhiteSpace
    THEN trim_end(SubSeq(s, 1, Len(s) - 1))
    ELSE s

\* str::trim
trim(s) == trim_end(trim_start(s))

\* str::starts_with
starts_with(s, p) == Len(p) <= Len(s) /\ SubSeq(s, 1, Len(p)) = p

\* str::contains
contains(s, p) ==
    \E i \in 0..(Len(s) - Len(p)) : SubSeq(s, i + 1, i + Len(p)) = p

\* chars().filter(|&c| c == b).count(), b an ASCII byte
count(s, b) == Cardinality({i \in DOMAIN s : s[i] = b})

\* A line without its terminator: "\n", and the "\r" of "\r\n", are removed.
strip_cr(line) ==
    IF line # <<>> /\ line[Len(line)] = CR
    THEN SubSeq(line, 1, Len(line) - 1)
    ELSE line

\* str::lines: split at "\n" or "\r\n"; a last line without "\n" is
\* returned as it is, and no empty line follows a final "\n".
RECURSIVE lines_from(_, _, _)
lines_from(s, i, cur) ==
    IF i > Len(s) THEN (IF cur = <<>> THEN <<>> ELSE <<cur>>)
    ELSE IF s[i] = LF THEN <<strip_cr(cur)>> \o lines_from(s, i + 1, <<>>)
    ELSE lines_from(s, i + 1, Append(cur, s[i]))

lines(s) == lines_from(s, 1, <<>>)

\* ------------------------------------------------------------- classifier
ITEM_KEYWORDS == {
    <<"f","n"," ">>,
    <<"s","t","r","u","c","t"," ">>,
    <<"e","n","u","m"," ">>,
    <<"i","m","p","l"," ">>,
    <<"t","r","a","i","t"," ">>,
    <<"m","o","d"," ">>,
    <<"p","u","b"," ">>,
    <<"e","x","t","e","r","n"," ">>,
    <<"c","o","n","s","t"," ">>,
    <<"s","t","a","t","i","c"," ">>,
    <<"t","y","p","e"," ">>,
    <<"u","s","e"," ">>,
    <<"#","[">>,
    <<"#","!">> }

is_item_line(line) ==
    LET trimmed == trim(line) IN
    IF trimmed = <<>> THEN FALSE
    ELSE \E kw \in ITEM_KEYWORDS : starts_with(trimmed, kw)

FnMain == <<"f","n"," ","m","a","i","n">>

\* The loop variables of split_items_and_statements before the first line.
ScanInit ==
    [brace_depth |-> 0, split_point |-> 0, line_byte_offset |-> 0,
     stopped |-> FALSE]

\* brace_depth after the braces of a line are counted.
depth_after(depth, trimmed) ==
    depth + count(trimmed, "{") - count(trimmed, "}")

\* scan_line with split_point advanced past every line inside a braced
\* item, whether or not the item is closed.
scan_line_advancing(st, line) ==
    LET trimmed == trim(line)
        off     == st.line_byte_offset + Len(line) + 1
        d       == depth_after(st.brace_depth, trimmed)
    IN  IF st.brace_depth > 0
        THEN [brace_depth      |-> IF d <= 0 THEN 0 ELSE d,
              split_point      |-> off,
              line_byte_offset |-> off,
              stopped          |-> FALSE]
        ELSE IF trimmed = <<>>
        THEN [brace_depth      |-> st.brace_depth,
              split_point      |-> off,
              line_byte_offset |-> off,
              stopped          |-> FALSE]
        ELSE IF is_item_line(trimmed)
        THEN [brace_depth      |-> IF d < 0 THEN 0 ELSE d,
              split_point      |-> off,
              line_byte_offset |-> off,
              stopped          |-> FALSE]
        ELSE [st EXCEPT !.stopped = TRUE]

\* scan_line without the clamp: brace_depth keeps the counted value.
scan_line_unclamped(st, line) ==
    LET trimmed == trim(line)
        off     == st.line_byte_offset + Len(line) + 1
        d       == depth_after(st.brace_depth, trimmed)
    IN  IF st.brace_depth > 0
        THEN [brace_depth      |-> d,
              split_point      |-> IF d <= 0 THEN off ELSE st.split_point,
              line_byte_offset |-> off,
              stopped          |-> FALSE]
        ELSE IF trimmed = <<>>
        THEN [brace_depth      |-> st.brace_depth,
              split_point      |-> off,
              line_byte_offset |-> off,
              stopped          |-> FALSE]
        ELSE IF is_item_line(trimmed)
        THEN [brace_depth      |-> d,
              split_point      |-> IF d <= 0 THEN off ELSE st.split_point,
              line_byte_offset |-> off,
              stopped          |-> FALSE]
        ELSE [st EXCEPT !.stopped = TRUE]

\* One iteration of the loop over the lines; stopped is the break.
scan_line(st, line) ==
    LET trimmed == trim(line)
        off     == st.line_byte_offset + Len(line) + 1
        d       == depth_after(st.brace_depth, trimmed)
    IN  IF st.brace_depth > 0
        THEN [brace_depth      |-> IF d <= 0 THEN 0 ELSE d,
              split_point      |-> IF d <= 0 THEN off ELSE st.split_point,
              line_byte_offset |-> off,
              stopped          |-> FALSE]
        ELSE IF trimmed = <<>>
        THEN [brace_depth      |-> st.brace_depth,
              split_point      |-> off,
              line_byte_offset |-> off,
              stopped          |-> FALSE]
        ELSE IF is_item_line(trimmed)
        THEN [brace_depth      |-> IF d < 0 THEN 0 ELSE d,
              split_point      |-> IF (IF d < 0 THEN 0 ELSE d) = 0
                                   THEN off ELSE st.split_point,
              line_byte_offset |-> off,
              stopped          |-> FALSE]
        ELSE [st EXCEPT !.stopped = TRUE]

\* The whole loop: the lines from index i on, until the break.
RECURSIVE scan_from(_, _, _)
scan_from(ls, i, st) ==
    IF i > Len(ls) \/ st.stopped THEN st
    ELSE scan_from(ls, i + 1, scan_line(st, ls[i]))

\* What a call of split_items_and_statements yields: a pair, or a panic.
Returned(preamble, body) ==
    [panic |-> FALSE, preamble |-> preamble, body |-> body]
Panicked == [panic |-> TRUE, preamble |-> <<>>, body |-> <<>>]

\* slice_at with the body taken one byte late: &code[split_point + 1..].
slice_at_late(code, sp) ==
    LET split_point == Min(sp, Len(code)) IN
    IF ~is_char_boundary(code, split_point) THEN Panicked
    ELSE LET preamble == SubSeq(code, 1, split_point)
             body     == SubSeq(code, split_point + 2, Len(code))
         IN  IF trim(body) = <<>>
             THEN Returned(code, <<>>)
             ELSE Returned(preamble, body)

\* The slicing after the loop.  &code[..split_point] panics when
\* split_point is not on a character boundary.
slice_at(code, sp) ==
    LET split_point == Min(sp, Len(code)) IN
    IF ~is_char_boundary(code, split_point) THEN Panicked
    ELSE LET preamble == SubSeq(code, 1, split_point)
             body     == SubSeq(code, split_point + 1, Len(code))
         IN  IF trim(body) = <<>>
             THEN Returned(code, <<>>)
             ELSE Returned(preamble, body)

\* split_items_and_statements without the "fn main" early return.
split_always_scans(code) ==
    slice_at(code, scan_from(lines(code), 1, ScanInit).split_point)

\* The function: the early return, the loop, the slicing.
split_items_and_statements(code) ==
    IF contains(code, FnMain) THEN Returned(code, <<>>)
    ELSE slice_at(code, scan_from(lines(code), 1, ScanInit).split_point)

\* ------------------------------------------------ wrapper and remapper
fn_main_prefix == <<"f","n"," ","m","a","i","n","(",")"," ","{",LF>>
suffix == <<LF, "}">>

\* wrap without the needs_wrap test.
wrap_always(code, preamble, body) ==
    [wrapped_code   |-> preamble \o fn_main_prefix \o body \o suffix,
     preamble_len   |-> Len(preamble),
     fn_main_offset |-> Len(fn_main_prefix)]

\* wrap recording an offset one byte short of the inserted text.
wrap_short_offset(code, preamble, body) ==
    IF body # <<>>
    THEN [wrapped_code   |-> preamble \o fn_main_prefix \o body \o suffix,
          preamble_len   |-> Len(preamble),
          fn_main_offset |-> Len(fn_main_prefix) - 1]
    ELSE [wrapped_code |-> code, preamble_len |-> 0, fn_main_offset |-> 0]

\* needs_wrap and the triple (wrapped_code, preamble_len, fn_main_offset).
wrap(code, preamble, body) ==
    IF body # <<>>
    THEN [wrapped_code   |-> preamble \o fn_main_prefix \o body \o suffix,
          preamble_len   |-> Len(preamble),
          fn_main_offset |-> Len(fn_main_prefix)]
    ELSE [wrapped_code |-> code, preamble_len |-> 0, fn_main_offset |-> 0]

\* in_wrapper with the header length left out of the upper bound.
in_wrapper_no_length(info, preamble_len, fn_main_offset) ==
    /\ fn_main_offset # 0
    /\ info.start >= preamble_len
    /\ info.start < preamble_len

\* The annotation starts in the "fn main() {\n" text: return None.
in_wrapper(info, preamble_len, fn_main_offset) ==
    /\ fn_main_offset # 0
    /\ info.start >= preamble_len
    /\ info.start < preamble_len + fn_main_offset

\* adjusted_start without the preamble arm.
adjusted_start_shifted(info, preamble_len, fn_main_offset) ==
    IF fn_main_offset = 0 THEN info.start
    ELSE info.start - fn_main_offset

adjusted_start(info, preamble_len, fn_main_offset) ==
    IF fn_main_offset = 0 THEN info.start
    ELSE IF info.start < preamble_len THEN info.start
    ELSE info.start - fn_main_offset

\* "Skip annotations that extend past the original code"
past_original(adjusted, code) == adjusted >= Len(code)

\* single_character with the comparison off by one.
single_character_strict(info) == info.length < 1

\* "Skip annotations for single-character tokens"
single_character(info) == info.length <= 1

\* The closure of filter_map for one info: <<>> is None, <<a>> is Some(a).
remap_one(info, code, preamble_len, fn_main_offset) ==
    IF in_wrapper(info, preamble_len, fn_main_offset) THEN <<>>
    ELSE LET adjusted == adjusted_start(info, preamble_len, fn_main_offset) IN
         IF past_original(adjusted, code) THEN <<>>
         ELSE IF single_character(info) THEN <<>>
         ELSE << [start     |-> adjusted,
                  length    |-> info.length,
                  type_text |-> info.text,
                  docs      |-> info.docs] >>

\* filter_map collecting the kept annotations in reverse.
RECURSIVE filter_map_reversed(_, _, _, _)
filter_map_reversed(infos, code, preamble_len, fn_main_offset) ==
    IF infos = <<>> THEN <<>>
    ELSE filter_map_reversed(Tail(infos), code, preamble_len, fn_main_offset)
         \o remap_one(Head(infos), code, preamble_len, fn_main_offset)

\* into_iter().filter_map(..).collect()
RECURSIVE filter_map(_, _, _, _)
filter_map(infos, code, preamble_len, fn_main_offset) ==
    IF infos = <<>> THEN <<>>
    ELSE remap_one(Head(infos), code, preamble_len, fn_main_offset)
         \o filter_map(Tail(infos), code, preamble_len, fn_main_offset)

\* ------------------------------------------------------ analysis engine
\* The engine is a black box: for a program text it answers Err, or Ok with
\* any list of annotations.  An annotation starts anywhere from 0 to the
\* end of the text it was given and has any length up to MaxAnnLen; its
\* text is a label that tells the annotations of one answer apart.
Positions(w) == [start : 0..Len(w), length : 0..MaxAnnLen]

Labelled(b) ==
    [i \in DOMAIN b |->
        [start |-> b[i].start, length |-> b[i].length,
         text |-> i, docs |-> "none"]]

EngineErr == [ok |-> FALSE, static_quick_infos |-> <<>>]
EngineOk(infos) == [ok |-> TRUE, static_quick_infos |-> infos]

\* The lists of k annotations the engine may report for the text w.
EngineLists(w, k) == [1..k -> Positions(w)]

\* ---------------------------------------------------------------- inputs
\* Lines of the generated snippets: blank, an attribute ending in a
\* two-byte character, an item that opens a brace, two closing braces,
\* an indented item with an unmatched closing brace, a statement, and an
\* entry point.
LineMenu == {
    <<>>,
    <<"#","[","C3","A9">>,
    <<"f","n"," ","f","{">>,
    <<"}","}">>,
    <<" ","#","!","}">>,
    <<"y",";">>,
    FnMain }

Terminators == { <<LF>>, <<CR, LF>> }

\* The text of the lines ls, each a pair of a line and its terminator.
RECURSIVE Text(_)
Text(ls) ==
    IF ls = <<>> THEN <<>>
    ELSE Head(ls)[1] \o Head(ls)[2] \o Text(Tail(ls))

\* The snippet of the lines ls, with or without its final "\n".
Snippet(ls, chop) ==
    LET s == Text(ls) IN
    IF chop /\ s # <<>> THEN SubSeq(s, 1, Len(s) - 1) ELSE s

\* Snippets handed to process_code_block by the sequential specification:
\* the empty snippet, a statement, an item followed by a statement, an
\* import alone, a complete entry point, a statement followed by an entry
\* point, and three CRLF lines of which the last ends in a two-byte
\* character.
Empty == <<>>
LetY == <<"l","e","t"," ","y"," ","="," ","5",";">>
HelperThenLet ==
    <<"f","n"," ","h","e","l","p","e","r","(",")"," ","-",">"," ",
      "i","3","2"," ","{"," ","1"," ","}",LF,
      "l","e","t"," ","z"," ","="," ","h","e","l","p","e","r","(",")",";">>
UseOnly == <<"u","s","e"," ","f","o","o",":",":","B","a","r",";",LF>>
HasMain == <<"f","n"," ","m","a","i","n","(",")"," ","{","}">>
StatementThenMain ==
    <<"y",";",LF,"f","n"," ","m","a","i","n","(",")"," ","{","}">>
CrlfAttr == <<CR,LF,CR,LF,"#","[","C3","A9",CR,LF>>

Programs ==
    {Empty, LetY, HelperThenLet, UseOnly, HasMain, StatementThenMain,
     CrlfAttr}

\* Snippets of the concurrency specification: the same shapes, shorter.
ShortPrograms == {
    Empty,
    <<"y",";">>,
    <<"#","[",LF,"y",";">>,
    <<"#","[",LF>>,
    CrlfAttr }

\* ----------------------------------------------------------------- state
Threads == 1..NThreads

\* The first thread: the only caller of the sequential specification.
Solo == {t \in Threads : \A u \in Threads : t <= u}

VARIABLES
    \* process_code_block, per calling thread
    pc,             \* "idle", "lock", "split", "analyze", "ret", "panicked"
    code,           \* the argument
    preamble,       \* the pair split_items_and_statements returned
    body,
    wrapped_code,   \* the text handed to analyze
    preamble_len,
    fn_main_offset,
    analyzed,       \* analyze was invoked by the current call
    raw,            \* what analyze answered
    out,            \* the value returned
    \* ANALYZER
    lock,           \* the threads holding a MutexGuard
    poisoned,       \* the mutex's poison flag
    \* one run of split_items_and_statements, line by line
    s_pc,           \* "off", "start", "scan", "slice", "ret", "panic"
    s_code,
    s_lines,        \* code.lines().collect()
    s_i,            \* index of the next line
    s_st,           \* brace_depth, split_point, line_byte_offset
    s_ret           \* the pair returned

call_vars == <<pc, code, preamble, body, wrapped_code, preamble_len, fn_main_offset,
               analyzed, raw, out>>
lock_vars == <<lock, poisoned>>
split_vars == <<s_pc, s_code, s_lines, s_i, s_st, s_ret>>
vars == <<call_vars, lock_vars, split_vars>>

NoResult == [ok |-> FALSE, static_quick_infos |-> <<>>]

CallsIdle ==
    /\ pc = [t \in Threads |-> "idle"]
    /\ code = [t \in Threads |-> <<>>]
    /\ preamble = [t \in Threads |-> <<>>]
    /\ body = [t \in Threads |-> <<>>]
    /\ wrapped_code = [t \in Threads |-> <<>>]
    /\ preamble_len = [t \in Threads |-> 0]
    /\ fn_main_offset = [t \in Threads |-> 0]
    /\ analyzed = [t \in Threads |-> FALSE]
    /\ raw = [t \in Threads |-> NoResult]
    /\ out = [t \in Threads |-> <<>>]
    /\ lock = {}
    /\ poisoned = FALSE

SplitOff ==
    /\ s_pc = "off"
    /\ s_code = <<>>
    /\ s_lines = <<>>
    /\ s_i = 0
    /\ s_st = ScanInit
    /\ s_ret = Returned(<<>>, <<>>)

\* ------------------------------------------------- process_code_block
\* The call with one of the given snippets: the thread is about to
\* execute ANALYZER.lock().
Call(t, snippets) ==
    /\ pc[t] = "idle"
    /\ \E c \in snippets : code' = [code EXCEPT ![t] = c]
    /\ pc' = [pc EXCEPT ![t] = "lock"]
    /\ analyzed' = [analyzed EXCEPT ![t] = FALSE]
    /\ UNCHANGED <<preamble, body, wrapped_code, preamble_len,
                   fn_main_offset, raw, out>>
    /\ UNCHANGED <<lock_vars, split_vars>>

\* A lock that never blocks.
lock_never_blocks == TRUE

\* Mutex::lock blocks while another guard exists.
lock_available == lock = {}

\* A lock whose poison flag is ignored.
lock_never_poisoned == FALSE

\* Mutex::lock answers Err when a thread panicked while holding a guard.
lock_poisoned == poisoned

\* ANALYZER.lock(): Ok(guard), or Err when the mutex is poisoned, and then
\* `return vec![]` (the guard inside the error is dropped at once).
Acquire(t) ==
    /\ pc[t] = "lock"
    /\ lock_available
    /\ IF lock_poisoned
       THEN /\ pc' = [pc EXCEPT ![t] = "ret"]
            /\ out' = [out EXCEPT ![t] = <<>>]
            /\ UNCHANGED lock
       ELSE /\ pc' = [pc EXCEPT ![t] = "split"]
            /\ lock' = lock \cup {t}
            /\ UNCHANGED out
    /\ UNCHANGED <<code, preamble, body, wrapped_code, preamble_len,
                   fn_main_offset, analyzed, raw, poisoned, split_vars>>

\* split_items_and_statements and the wrapping, up to the call of analyze.
SplitWrap(t) ==
    /\ pc[t] = "split"
    /\ \E r \in {split_items_and_statements(code[t])} :
       /\ ~r.panic
       /\ preamble' = [preamble EXCEPT ![t] = r.preamble]
       /\ body' = [body EXCEPT ![t] = r.body]
       /\ \E w \in {wrap(code[t], r.preamble, r.body)} :
          /\ wrapped_code' = [wrapped_code EXCEPT ![t] = w.wrapped_code]
          /\ preamble_len' = [preamble_len EXCEPT ![t] = w.preamble_len]
          /\ fn_main_offset' = [fn_main_offset EXCEPT ![t] = w.fn_main_offset]
    /\ pc' = [pc EXCEPT ![t] = "analyze"]
    /\ analyzed' = [analyzed EXCEPT ![t] = TRUE]
    /\ UNCHANGED <<code, raw, out, lock_vars, split_vars>>

\* split_items_and_statements panics: the thread unwinds, its guard is
\* dropped during the panic and poisons the mutex.
SplitPanics(t) ==
    /\ pc[t] = "split"
    /\ split_items_and_statements(code[t]).panic
    /\ pc' = [pc EXCEPT ![t] = "panicked"]
    /\ lock' = lock \ {t}
    /\ poisoned' = TRUE
    /\ UNCHANGED <<code, preamble, body, wrapped_code, preamble_len,
                   fn_main_offset, analyzed, raw, out, split_vars>>

\* analyze returns; the match arms compute the value to return.  n bounds
\* the number of annotations in the engine's answer.
Analyze(t, n) ==
    /\ pc[t] = "analyze"
    /\ \E k \in 0..n : \E b \in EngineLists(wrapped_code[t], k) :
       \E r \in {EngineErr, EngineOk(Labelled(b))} :
          /\ raw' = [raw EXCEPT ![t] = r]
          /\ out' = [out EXCEPT ![t] =
                        IF r.ok
                        THEN filter_map(r.static_quick_infos, code[t],
                                        preamble_len[t], fn_main_offset[t])
                        ELSE <<>>]
    /\ pc' = [pc EXCEPT ![t] = "ret"]
    /\ UNCHANGED <<code, preamble, body, wrapped_code, preamble_len,
                   fn_main_offset, analyzed, lock_vars, split_vars>>

\* The function returns: the guard, if any, is dropped and the caller
\* takes the value.
Return(t) ==
    /\ pc[t] = "ret"
    /\ lock' = lock \ {t}
    /\ pc' = [pc EXCEPT ![t] = "idle"]
    /\ code' = [code EXCEPT ![t] = <<>>]
    /\ preamble' = [preamble EXCEPT ![t] = <<>>]
    /\ body' = [body EXCEPT ![t] = <<>>]
    /\ wrapped_code' = [wrapped_code EXCEPT ![t] = <<>>]
    /\ preamble_len' = [preamble_len EXCEPT ![t] = 0]
    /\ fn_main_offset' = [fn_main_offset EXCEPT ![t] = 0]
    /\ analyzed' = [analyzed EXCEPT ![t] = FALSE]
    /\ raw' = [raw EXCEPT ![t] = NoResult]
    /\ out' = [out EXCEPT ![t] = <<>>]
    /\ UNCHANGED <<poisoned, split_vars>>

\* ------------------------------------- split_items_and_statements, stepped
\* The early return for a snippet that contains "fn main", else the loop
\* is entered.
SplitEnter ==
    /\ s_pc = "start"
    /\ IF contains(s_code, FnMain)
       THEN /\ s_pc' = "ret"
            /\ s_ret' = Returned(s_code, <<>>)
            /\ UNCHANGED <<s_lines, s_i, s_st>>
       ELSE /\ s_pc' = "scan"
            /\ s_lines' = lines(s_code)
            /\ s_i' = 1
            /\ s_st' = ScanInit
            /\ UNCHANGED s_ret
    /\ UNCHANGED <<s_code, call_vars, lock_vars>>

\* One iteration of the loop, or its end.
SplitScan ==
    /\ s_pc = "scan"
    /\ IF s_i > Len(s_lines)
       THEN /\ s_pc' = "slice"
            /\ UNCHANGED <<s_i, s_st>>
       ELSE LET st == scan_line(s_st, s_lines[s_i]) IN
            /\ s_st' = st
            /\ s_pc' = IF st.stopped THEN "slice" ELSE "scan"
            /\ s_i' = IF st.stopped THEN s_i ELSE s_i + 1
    /\ UNCHANGED <<s_code, s_lines, s_ret, call_vars, lock_vars>>

\* The slicing and the return.
SplitSlice ==
    /\ s_pc = "slice"
    /\ LET r == slice_at(s_code, s_st.split_point) IN
       /\ s_ret' = r
       /\ s_pc' = IF r.panic THEN "panic" ELSE "ret"
    /\ UNCHANGED <<s_code, s_lines, s_i, s_st, call_vars, lock_vars>>

\* --------------------------------------------------------- specifications
\* One caller, any engine answer of up to MaxAnn annotations.
Init == CallsIdle /\ SplitOff

Next ==
    \E t \in Solo :
        \/ Call(t, Programs)
        \/ Acquire(t)
        \/ SplitWrap(t)
        \/ SplitPanics(t)
        \/ Analyze(t, MaxAnn)
        \/ Return(t)

Spec == Init /\ [][Next]_vars

\* One caller; the engine answers with up to MaxOrdered annotations.
NextOrder ==
    \E t \in Solo :
        \/ Call(t, ShortPrograms)
        \/ Acquire(t)
        \/ SplitWrap(t)
        \/ SplitPanics(t)
        \/ Analyze(t, MaxOrdered)
        \/ Return(t)

SpecOrder == Init /\ [][NextOrder]_vars

\* NThreads callers; the engine answers with at most one annotation.
NextConc ==
    \E t \in Threads :
        \/ Call(t, ShortPrograms)
        \/ Acquire(t)
        \/ SplitWrap(t)
        \/ SplitPanics(t)
        \/ Analyze(t, 1)
        \/ Return(t)

SpecConc == Init /\ [][NextConc]_vars

\* NThreads callers under fair scheduling; the engine answers with no
\* annotation or with an error.
NextLive ==
    \E t \in Threads :
        \/ Call(t, ShortPrograms)
        \/ Acquire(t)
        \/ SplitWrap(t)
        \/ SplitPanics(t)
        \/ Analyze(t, 0)
        \/ Return(t)

\* Thread t leaves split_items_and_statements, by its return (SplitWrap) or
\* by its panic (SplitPanics): the step as it shows on pc.
SplitDone(t) ==
    /\ pc[t] = "split"
    /\ \E p \in {"analyze", "panicked"} : pc' = [pc EXCEPT ![t] = p]

\* A call that can take its next step does so, analyze returns, and a
\* caller waiting in lock() is not passed over for ever.  Nothing obliges a
\* thread to call again.
Fairness ==
    \A t \in Threads :
        /\ SF_vars(Acquire(t))
        /\ WF_pc(SplitDone(t))
        /\ WF_vars(Analyze(t, 0))
        /\ WF_vars(Return(t))

SpecLive == Init /\ [][NextLive]_vars /\ Fairness

\* The classifier alone, on every generated snippet.
InitSplit ==
    /\ CallsIdle
    /\ s_pc = "start"
    /\ \E n \in 0..MaxLines :
       \E ls \in [1..n -> LineMenu \X Terminators] :
       \E chop \in BOOLEAN :
          s_code = Snippet(ls, chop)
    /\ s_lines = <<>>
    /\ s_i = 0
    /\ s_st = ScanInit
    /\ s_ret = Returned(<<>>, <<>>)

NextSplit == SplitEnter \/ SplitScan \/ SplitSlice

SpecSplit == InitSplit /\ [][NextSplit]_vars

\* The stepped run returns what the function returns.
SteppedAgrees ==
    s_pc \in {"ret", "panic"} => s_ret = split_items_and_statements(s_code)

\* ----------------------------------------------------------------- claims
\* The engine annotation a returned annotation a came from.
Source(t, a) == raw[t].static_quick_infos[a.type_text]

\* Thread t is about to return what it made of an Ok answer of the engine.
Remapped(t) == pc[t] = "ret" /\ analyzed[t] /\ raw[t].ok

\* The call of thread t wrapped its snippet.
Wrapped(t) == fn_main_offset[t] # 0

\* C1: whenever split_items_and_statements returns a non-empty body, the
\* preamble followed by the body is the snippet, byte for byte.
C1_SplitReassembly ==
    (s_pc = "ret" /\ s_ret.body # <<>>) =>
        s_ret.preamble \o s_ret.body = s_code

\* A split of a snippet with a CRLF line and a braced item in the preamble.
C1_Witness ==
    /\ s_pc = "ret"
    /\ s_ret.body # <<>>
    /\ count(s_ret.preamble, "{") > 0
    /\ count(s_ret.preamble, CR) > 0
    /\ count(s_ret.preamble, LF) > 1

\* C2: a returned annotation whose engine start p lies in the body region
\* of the wrapped program, and which the engine placed inside the wrapped
\* text, is reported at p - fn_main_offset, and the bytes of the snippet
\* at [start, start + length) are the bytes of the wrapped text at
\* [p, p + length).
C2_RoundTrip ==
    \A t \in Threads :
        (Remapped(t) /\ Wrapped(t)) =>
            \A k \in DOMAIN out[t] :
                LET a    == out[t][k]
                    info == Source(t, a)
                IN  (/\ info.start >= preamble_len[t] + fn_main_offset[t]
                     /\ info.start + info.length <= Len(wrapped_code[t]))
                    =>
                    /\ a.start = info.start - fn_main_offset[t]
                    /\ \A i \in 0..(a.length - 1) :
                          /\ a.start + i < Len(code[t])
                          /\ code[t][a.start + i + 1]
                                = wrapped_code[t][info.start + i + 1]

\* C3: no returned annotation has an engine length <= 1, or an adjusted
\* start at or past the end of the snippet, or, when the snippet was
\* wrapped, an engine start inside the "fn main() {\n" text.
C3_DropGuarantees ==
    \A t \in Threads :
        Remapped(t) =>
            \A k \in DOMAIN out[t] :
                LET a    == out[t][k]
                    info == Source(t, a)
                IN  /\ info.length > 1
                    /\ a.length = info.length
                    /\ a.start < Len(code[t])
                    /\ Wrapped(t) =>
                          ~(/\ info.start >= preamble_len[t]
                            /\ info.start < preamble_len[t] + fn_main_offset[t])

\* The engine reported a two-byte annotation on the last byte of the
\* "fn main() {\n" text and the call returns nothing.
C3_Witness ==
    \E t \in Threads :
        /\ Remapped(t)
        /\ Wrapped(t)
        /\ Len(raw[t].static_quick_infos) = 1
        /\ raw[t].static_quick_infos[1].start
              = preamble_len[t] + fn_main_offset[t] - 1
        /\ raw[t].static_quick_infos[1].length > 1
        /\ out[t] = <<>>

\* C4: process_code_block never panics, and when the engine answers Err or
\* the lock is poisoned it returns the empty list.
C4_NeverFatal ==
    \A t \in Threads :
        /\ pc[t] # "panicked"
        /\ (pc[t] = "ret" /\ ~raw[t].ok) => out[t] = <<>>

\* C5: at most one call is inside analyze at any time.
C5_MutualExclusion ==
    Cardinality({t \in Threads : pc[t] = "analyze"}) <= 1

\* One call is inside analyze while another waits for the lock.
C5_Witness ==
    \E t, u \in Threads : pc[t] = "analyze" /\ pc[u] = "lock"

\* Thread t has passed ANALYZER.lock() with a guard and has not returned.
UnderLock(t) ==
    \/ pc[t] \in {"split", "analyze"}
    \/ pc[t] = "ret" /\ analyzed[t]

\* C6 as stated: a call that waits for the lock is kept waiting only by a
\* call that is inside analyze.
C6_BlockedOnlyByAnalyze ==
    \A t \in Threads :
        (pc[t] = "lock" /\ ~lock_available) =>
            \E u \in lock : pc[u] = "analyze"

\* C6 amended: the guard is held from ANALYZER.lock() to the return, so
\* classification, wrapping, analyze and remapping of one call exclude
\* those of every other call, and a waiting call is kept waiting exactly
\* by a call in one of these stages.
C6_BlockedByWholeCall ==
    /\ \A t, u \in Threads :
          (UnderLock(t) /\ UnderLock(u)) => t = u
    /\ \A t \in Threads : UnderLock(t) <=> t \in lock
    /\ \A t \in Threads :
          (pc[t] = "lock" /\ ~lock_available) =>
              \E u \in Threads \ {t} : UnderLock(u)

\* A call waits for the lock while another one, not yet in analyze, is
\* classifying its snippet.
C6_Witness ==
    \E t, u \in Threads :
        /\ pc[t] = "lock"
        /\ pc[u] = "split"
        /\ u \in lock

\* C7: a snippet that contains an entry point is returned whole as
\* preamble with an empty body, is handed to the engine as it is, and
\* every returned annotation has the start the engine reported.
C7_Identity ==
    \A t \in Threads :
        (analyzed[t] /\ contains(code[t], FnMain)) =>
            /\ preamble[t] = code[t]
            /\ body[t] = <<>>
            /\ wrapped_code[t] = code[t]
            /\ Remapped(t) =>
                  \A k \in DOMAIN out[t] :
                      out[t][k].start = Source(t, out[t][k]).start

\* A snippet whose entry point follows a statement was analyzed unwrapped
\* and an annotation on the statement's line is returned.
C7_Witness ==
    \E t \in Threads :
        /\ Remapped(t)
        /\ code[t] = StatementThenMain
        /\ out[t] # <<>>
        /\ out[t][1].start = 0

\* C8: when the snippet was wrapped, a returned annotation whose engine
\* start is below preamble_len is reported at that start.
C8_PreambleInvariance ==
    \A t \in Threads :
        (Remapped(t) /\ Wrapped(t)) =>
            \A k \in DOMAIN out[t] :
                LET a    == out[t][k]
                    info == Source(t, a)
                IN  info.start < preamble_len[t] => a.start = info.start

\* An annotation on the last byte of a non-empty preamble is returned.
C8_Witness ==
    \E t \in Threads :
        /\ Remapped(t)
        /\ Wrapped(t)
        /\ out[t] # <<>>
        /\ Source(t, out[t][1]).start = preamble_len[t] - 1

\* C9: once the lock is poisoned, a call gets past ANALYZER.lock() only to
\* return the empty list, without a guard and without invoking analyze.
C9_PoisonedReturnsEmpty ==
    poisoned =>
        \A t \in Threads :
            /\ pc[t] \notin {"split", "analyze"}
            /\ pc[t] = "ret" =>
                  (out[t] = <<>> /\ ~analyzed[t] /\ t \notin lock)

\* A call made after the lock was poisoned is returning.
C9_Witness ==
    poisoned /\ \E t \in Threads : pc[t] = "ret"

\* The byte offset at which line j of the snippet starts.
LineStart(text, j) ==
    IF j = 1 THEN 0
    ELSE LET ends == {i \in DOMAIN text : text[i] = LF} IN
         CHOOSE i \in ends : Cardinality({k \in ends : k <= i}) = j - 1

\* brace_depth when the loop reaches line j.
DepthBefore(ls, j) == scan_from(SubSeq(ls, 1, j - 1), 1, ScanInit).brace_depth

\* The line that opened the item still open after the last line.
OpeningLine(ls) ==
    CHOOSE j \in 1..Len(ls) :
        /\ DepthBefore(ls, j) = 0
        /\ \A k \in (j + 1)..Len(ls) : DepthBefore(ls, k) > 0

\* The loop ended inside a braced item: no line closed it.
Unterminated ==
    /\ s_pc = "ret"
    /\ ~contains(s_code, FnMain)
    /\ s_st.brace_depth > 0

FirstLine(text) == lines(text)[1]

\* C11: whenever the scan stops at a statement line and a split occurs,
\* the preamble ends at a line boundary of the snippet (offset 0 or just
\* after a "\n"), and the body begins at that statement line: non-blank,
\* no item prefix, scanned at brace depth 0.
C11_ClassificationInvariant ==
    (s_pc = "ret" /\ s_ret.body # <<>> /\ s_st.stopped) =>
        /\ \/ Len(s_ret.preamble) = 0
           \/ s_code[Len(s_ret.preamble)] = LF
        /\ trim(FirstLine(s_ret.body)) # <<>>
        /\ ~is_item_line(FirstLine(s_ret.body))
        /\ s_st.brace_depth = 0

\* C12: every returned annotation lies inside the snippet: its start plus
\* its length is at most the byte length of the snippet.
C12_WithinOriginal ==
    \A t \in Threads :
        Remapped(t) =>
            \A k \in DOMAIN out[t] :
                out[t][k].start + out[t][k].length <= Len(code[t])

\* C13: when the classified body is non-empty the program handed to the
\* engine is preamble ++ "fn main() {\n" ++ body ++ "\n}", with preamble_len
\* the byte length of the preamble and fn_main_offset 12; when the body is
\* empty it is the snippet itself and both recorded lengths are 0.
C13_WrapperConstruction ==
    \A t \in Threads :
        analyzed[t] =>
            IF body[t] # <<>>
            THEN /\ wrapped_code[t] =
                        preamble[t]
                        \o <<"f","n"," ","m","a","i","n","(",")"," ","{","\n">>
                        \o body[t]
                        \o <<"\n","}">>
                 /\ preamble_len[t] = Len(preamble[t])
                 /\ fn_main_offset[t] = 12
            ELSE /\ wrapped_code[t] = code[t]
                 /\ preamble_len[t] = 0
                 /\ fn_main_offset[t] = 0

C13_Witness ==
    \E t \in Threads :
        /\ analyzed[t]
        /\ preamble[t] # <<>>
        /\ body[t] # <<>>
        /\ Len(wrapped_code[t]) = Len(code[t]) + 14

\* Scenario 2: what a call on the helper snippet did with the engine's
\* annotations once the preamble is n bytes long and the header occupies the
\* wrapped offsets [n, n + 12): one reported at wrapped offset 10 with a
\* length above 1 is returned at offset 10, one reported at wrapped offset
\* 30 is not returned.
HelperScenario(t, n) ==
    /\ preamble[t] = SubSeq(HelperThenLet, 1, Len(HelperThenLet) - 17)
    /\ body[t] = <<"l","e","t"," ","z"," ","="," ",
                   "h","e","l","p","e","r","(",")",";">>
    /\ Len(preamble[t]) = n
    /\ SubSeq(wrapped_code[t], n + 1, n + 12) =
           <<"f","n"," ","m","a","i","n","(",")"," ","{","\n">>
    /\ \A i \in DOMAIN raw[t].static_quick_infos :
           LET info == raw[t].static_quick_infos[i] IN
           /\ (info.start = 10 /\ info.length >= 2) =>
                  \E k \in DOMAIN out[t] :
                      out[t][k].type_text = i /\ out[t][k].start = 10
           /\ info.start = 30 =>
                  \A k \in DOMAIN out[t] : out[t][k].type_text # i

\* C14 as stated: the preamble of the helper snippet is 26 bytes and the
\* header occupies the wrapped offsets [26, 38).
C14_HelperPreamble26 ==
    \A t \in Threads :
        (Remapped(t) /\ code[t] = HelperThenLet) => HelperScenario(t, 26)

\* C14: the preamble of the helper snippet is "fn helper() -> i32 { 1 }\n",
\* 25 bytes, the body is "let z = helper();", the header occupies the
\* wrapped offsets [25, 37); an engine annotation at wrapped offset 10 is
\* returned at offset 10 and one at wrapped offset 30 is dropped.
C14_HelperPreamble25 ==
    \A t \in Threads :
        (Remapped(t) /\ code[t] = HelperThenLet) => HelperScenario(t, 25)

C14_Witness ==
    \E t \in Threads :
        /\ Remapped(t)
        /\ code[t] = HelperThenLet
        /\ raw[t].static_quick_infos # <<>>
        /\ raw[t].static_quick_infos[1].start = 30
        /\ out[t] = <<>>

\* The text after the computed split point.
AfterSplit == SubSeq(s_code, Min(s_st.split_point, Len(s_code)) + 1, Len(s_code))

\* The scan ran over every line and met blank lines and items only: it never
\* stopped at a statement line and no item is left open.
ItemsAndBlanksOnly ==
    /\ ~contains(s_code, FnMain)
    /\ ~s_st.stopped
    /\ s_st.brace_depth = 0

\* No wrapping happens for the returned pair.
NotWrapped ==
    /\ s_ret = Returned(s_code, <<>>)
    /\ wrap(s_code, s_ret.preamble, s_ret.body).wrapped_code = s_code

\* C15: when the text after the computed split point is empty or only
\* whitespace, split_items_and_statements returns (whole snippet, "") and
\* nothing is wrapped; a snippet made only of items and blank lines, and the
\* empty snippet, are never wrapped.
C15_EmptyBodyCollapse ==
    s_pc = "ret" =>
        /\ (~contains(s_code, FnMain) /\ trim(AfterSplit) = <<>>) => NotWrapped
        /\ ItemsAndBlanksOnly => NotWrapped
        /\ s_code = <<>> => NotWrapped

\* Line j has its braces counted (it is inside an item or is an item line)
\* and closes more braces than are open.
OverCloses(ls, j) ==
    LET before  == DepthBefore(ls, j)
        trimmed == trim(ls[j])
    IN  /\ before > 0 \/ (trimmed # <<>> /\ is_item_line(trimmed))
        /\ depth_after(before, trimmed) < 0

\* C16: brace_depth is never negative when the loop reaches a line, and
\* after a line that closes more braces than are open it is 0 and the loop
\* goes on to the next line.
C16_DepthClamp ==
    /\ s_st.brace_depth >= 0
    /\ (s_pc = "scan" /\ s_i > 1 /\ OverCloses(s_lines, s_i - 1)) =>
           /\ s_st.brace_depth = 0
           /\ ~s_st.stopped

C16_Witness ==
    /\ s_pc = "scan"
    /\ s_i > 1
    /\ s_i <= Len(s_lines)
    /\ OverCloses(s_lines, s_i - 1)

\* C17: the returned annotations are in the engine's order: each comes from
\* one engine annotation (same length, start kept or moved back by the
\* header), and their positions in the engine's list strictly increase, so
\* none is reordered or duplicated.
C17_StableOrder ==
    \A t \in Threads :
        Remapped(t) =>
            /\ \A k \in DOMAIN out[t] :
                   /\ out[t][k].type_text \in DOMAIN raw[t].static_quick_infos
                   /\ out[t][k].length = Source(t, out[t][k]).length
                   /\ out[t][k].start \in
                          {Source(t, out[t][k]).start,
                           Source(t, out[t][k]).start - fn_main_offset[t]}
            /\ \A j, k \in DOMAIN out[t] :
                   j < k => out[t][j].type_text < out[t][k].type_text

C17_Witness ==
    \E t \in Threads :
        /\ Remapped(t)
        /\ Wrapped(t)
        /\ Len(raw[t].static_quick_infos) = 2
        /\ Len(out[t]) = 2
        /\ out[t][1].start > out[t][2].start

\* The program text process_code_block builds from the classifier's result.
Handed == wrap(s_code, s_ret.preamble, s_ret.body).wrapped_code

\* C18: the program text handed to the engine classifies as needing no
\* wrapping: split_items_and_statements(w) = (w, ""); when the snippet
\* needed no wrapping it is the snippet itself.
C18_WrapIdempotent ==
    s_pc = "ret" =>
        /\ split_items_and_statements(Handed) = Returned(Handed, <<>>)
        /\ s_ret.body = <<>> => Handed = s_code

C18_Witness ==
    /\ s_pc = "ret"
    /\ s_ret.body # <<>>
    /\ Handed # s_code
    /\ count(s_ret.body, "}") > count(s_ret.body, "{")

\* C19: a call holds the engine lock from the moment it acquires it until
\* it returns, whatever the engine answered, and not after; under fair
\* scheduling every caller waiting for the lock acquires it, and every
\* caller that holds it returns.
C19_LockProgress ==
    /\ [](\A t \in Threads : t \in lock <=> UnderLock(t))
    /\ \A t \in Threads : (pc[t] = "lock") ~> (t \in lock)
    /\ \A t \in Threads : (t \in lock) ~> (pc[t] = "idle")

====
